---- MODULE Spec2Model ----
(***************************************************************************)
(* Model of the VOTA server: the HTTP handlers of server/routes.ts, the    *)
(* store they use (DatabaseStorage), the Replicate provider client        *)
(* (server/services/replicate.ts) and the cost tracker                    *)
(* (server/services/costTracker.ts).                                      *)
(*                                                                         *)
(* Handlers are split at their await points: every store access and every *)
(* provider call is one step, so that requests interleave as they do on    *)
(* the event loop.  The provider and the store are the environment: what   *)
(* the provider reports for a handle, and whether a store access or a call *)
(* raises, is chosen nondeterministically.                                 *)
(*                                                                         *)
(* Encoding: URLs, handles and texts are integers, 0 is null.  The output  *)
(* URL of provider job h is h; a job that answers with a sequence of URLs  *)
(* answers <<h, AltUrl(h)>>.                                               *)
(***************************************************************************)
EXTENDS Integers, Sequences, FiniteSets, TLC

\* ---------------------------------------------------------------- bounds
MaxJobs == 3          \* provider handles 1..MaxJobs
MaxOps == 2           \* provider-client operations in one client run

\* ------------------------------------------------------- program constants
NumBackups == 4                 \* BACKUP_VIDEO_MODELS.length
maxAttempts == 20               \* extractFace polling cap
useDevelopmentMode == TRUE      \* routes.ts: const useDevelopmentMode = true

NULL == 0
VideoIds == {1}
UserIds == {1}
UploadIds == {1}
Pollers == {1, 2}               \* two clients polling GET /api/videos/:id
Handles == 1..MaxJobs
DevFaceUrl == 1                 \* the sample face image of development mode
PlaceholderFaceUrl == 2         \* the placeholder extractFace falls back to
UserEmail == 1                  \* the address in User.email
VideoEmail == 2                 \* the address in Video.notificationEmail
AltUrl(h) == h + MaxJobs

Terminal == {"completed", "failed"}

\* a provider output: null, one URL, or a sequence of URLs
NullOut == [kind |-> "null", urls |-> <<>>]
StrOut(u) == [kind |-> "str", urls |-> <<u>>]
ArrOut(s) == [kind |-> "arr", urls |-> s]
\* a stored (text) column as it appears in a JSON response
Col(u) == IF u = NULL THEN NullOut ELSE StrOut(u)

VARIABLES
  users,        \* store: users table
  videos,       \* store: videos table
  uploads,      \* store: user_uploads table
  jobs,         \* provider: what it reports for each handle
  nextJob,      \* provider: next fresh handle
  pc,           \* position of each GET /api/videos/:id request
  req,          \* locals of each GET /api/videos/:id request
  resp,         \* response of each GET /api/videos/:id request
  pvPc,         \* position of the POST /api/videos request
  pv,           \* locals and response of the POST /api/videos request
  upPc,         \* position of POST /api/uploads and its background task
  up,           \* locals and response of POST /api/uploads
  emailConfigured, \* EmailService.isConfigured
  mails,        \* deliveries attempted by the email service, per video
  cl,           \* a provider-client run (operations called directly)
  defaultUsers, \* store: rows of users named user_<n>, per n
  guPc,         \* position of the GET /api/uploads/:id request
  gu            \* locals and response of the GET /api/uploads/:id request

vars == <<users, videos, uploads, jobs, nextJob, pc, req, resp, pvPc, pv, upPc, up,
          emailConfigured, mails, cl, defaultUsers, guPc, gu>>
mailVars == <<emailConfigured, mails>>
storeVars == <<users, videos, uploads>>
providerVars == <<jobs, nextJob>>
getVars == <<pc, req, resp>>
postVars == <<pvPc, pv>>
uploadVars == <<upPc, up>>
pollVars == <<defaultUsers, guPc, gu>>

\* ------------------------------------------------------------------ store
NoVideo == [exists |-> FALSE, userId |-> NULL, status |-> "none", requestId |-> NULL,
            rawVideoUrl |-> NULL, videoUrl |-> NULL, thumbnailUrl |-> NULL,
            errorMessage |-> NULL, notificationEmail |-> NULL]
NoUpload == [exists |-> FALSE, userId |-> NULL, processingStatus |-> "none",
             faceImageUrl |-> NULL, errorMessage |-> NULL]
NoUser == [exists |-> FALSE, faceImageUrl |-> NULL, email |-> NULL, processingStatus |-> "none"]

\* an update that gives way to a face swap another writer has already recorded
updateVideoMut(id, updates) ==
  IF "rawVideoUrl" \in DOMAIN updates /\ videos[id].rawVideoUrl # NULL
    THEN videos
    ELSE [videos EXCEPT ![id] = [f \in DOMAIN videos[id] |->
                                   IF f \in DOMAIN updates THEN updates[f] ELSE videos[id][f]]]

\* db.update(videos).set(updates).where(eq(videos.id, id)).returning()
updateVideo(id, updates) ==
  [videos EXCEPT ![id] = [f \in DOMAIN videos[id] |->
                            IF f \in DOMAIN updates THEN updates[f] ELSE videos[id][f]]]

\* a store that loses updates of user_uploads
updateUserUploadMut(id, updates) == uploads

\* db.update(userUploads).set(updates).where(eq(userUploads.id, id)).returning()
updateUserUpload(id, updates) ==
  [uploads EXCEPT ![id] = [f \in DOMAIN uploads[id] |->
                             IF f \in DOMAIN updates THEN updates[f] ELSE uploads[id][f]]]

\* db.update(users).set(updates).where(eq(users.id, id)).returning()
updateUser(id, updates) ==
  [users EXCEPT ![id] = [f \in DOMAIN users[id] |->
                           IF f \in DOMAIN updates THEN updates[f] ELSE users[id][f]]]

\* db.update(videos).set({ status })
updateVideoStatus(id, status) == updateVideo(id, [status |-> status])

\* ---------------------------------------------------------------- provider
NoJob == [kind |-> "none", status |-> "none", outKind |-> "null", hasErr |-> FALSE, src |-> NULL]

\* the body the provider returns for a job
JobOutput(h) ==
  IF jobs[h].status # "succeeded" THEN NullOut
  ELSE IF jobs[h].outKind = "str" THEN StrOut(h)
  ELSE IF jobs[h].outKind = "arr" THEN ArrOut(<<h, AltUrl(h)>>)
  ELSE NullOut

ThrowResponse == [transport |-> "throw", ok |-> FALSE, status |-> "none", output |-> NullOut, error |-> NULL]

\* what a GET of prediction h can answer: the transport fails, the provider
\* answers with a non-success status (with or without an error text), or it
\* answers with the job's state
PollResponses(h) ==
  {ThrowResponse}
  \cup {[transport |-> "ok", ok |-> FALSE, status |-> "none", output |-> NullOut, error |-> e] : e \in {NULL, 1}}
  \cup {[transport |-> "ok", ok |-> TRUE, status |-> jobs[h].status, output |-> JobOutput(h),
         error |-> IF jobs[h].status = "failed" /\ jobs[h].hasErr THEN 1 ELSE NULL]}

\* outcome of a POST that submits a job
SubmitOutcomes == {"ok", "errorResponse", "throw"}

\* a job advances at the provider
ProviderProgress(h) ==
  /\ jobs[h].status = "processing"
  /\ \/ \E k \in {"str", "arr", "null"} :
          jobs' = [jobs EXCEPT ![h].status = "succeeded", ![h].outKind = k]
     \/ \E e \in BOOLEAN :
          jobs' = [jobs EXCEPT ![h].status = "failed", ![h].hasErr = e]
  /\ UNCHANGED <<nextJob, storeVars, getVars, postVars, uploadVars, mailVars, cl, pollVars>>

\* -------------------------------------------------- provider client (pure)
\* The result of one client operation given the provider's answer:
\* throws, the value returned, and how many times trackApiUsage is invoked.

\* ReplicateService.checkVideoStatus
checkVideoStatus(r) ==
  IF r.transport = "throw"
    THEN [throws |-> TRUE, value |-> r, tracks |-> 1]
  ELSE IF ~r.ok \/ r.error # NULL
    THEN [throws |-> TRUE, value |-> r, tracks |-> 2]
  ELSE [throws |-> FALSE,
        value |-> IF r.status = "succeeded" /\ r.output.kind = "arr" /\ Len(r.output.urls) > 0
                    THEN [r EXCEPT !.output = StrOut(r.output.urls[1])]
                    ELSE r,
        tracks |-> 1]

\* ReplicateService.checkFaceSwapStatus
checkFaceSwapStatus(r) ==
  IF r.transport = "throw"
    THEN [throws |-> TRUE, value |-> r, tracks |-> 1]
    ELSE [throws |-> FALSE, value |-> r, tracks |-> 1]

\* ReplicateService.swapFace, given the outcome of its submit
swapFace(o) ==
  IF o = "throw" THEN [throws |-> TRUE, tracks |-> 1]
  ELSE IF o = "errorResponse" THEN [throws |-> TRUE, tracks |-> 2]
  ELSE [throws |-> FALSE, tracks |-> 1]

\* Array.isArray(x) ? x[0] : x   (routes.ts, on a truthy output)
FirstUrl(out) == IF Len(out.urls) > 0 THEN out.urls[1] ELSE NULL

\* ------------------------------------------------ GET /api/videos/:id
NoPoll == [transport |-> "none", ok |-> FALSE, status |-> "none", output |-> NullOut, error |-> NULL]
NoReq == [vid |-> NULL, video |-> NoVideo, videoUrl |-> NULL, out |-> NullOut,
          srError |-> NULL, swapId |-> NULL, updatedVideo |-> NoVideo, user |-> NoUser,
          branch |-> "none", calls |-> 0, submits |-> 0, writes |-> 0, mailTo |-> NULL,
          job0 |-> NoJob, polled |-> NoPoll, sent |-> "notCalled"]
NoResp == [code |-> 0, status |-> "none", videoUrl |-> NullOut, error |-> FALSE,
           progress |-> 0, errorMessage |-> FALSE, caught |-> FALSE]

\* res.status(code).json({...video, ...})
VideoJson(v) == [code |-> 200, status |-> v.status, videoUrl |-> Col(v.videoUrl),
                 error |-> FALSE, progress |-> 0, errorMessage |-> v.errorMessage # NULL,
                 caught |-> FALSE]

Respond(p, r) ==
  /\ pc' = [pc EXCEPT ![p] = "done"]
  /\ resp' = [resp EXCEPT ![p] = r]

\* catch (err): res.status(200).json({...video, error: err.message})
CatchCheck(p) == Respond(p, [VideoJson(req[p].video) EXCEPT !.error = TRUE, !.caught = TRUE])

\* a check that returns early only for completed videos
alreadyFinishedMut(video) == video.status = "completed"

\* video.status === 'completed' || video.status === 'failed'
alreadyFinished(video) == video.status \in Terminal

\* storage.getVideo and the early returns; job0 remembers what the provider
\* held for the video's handle when the check began
GetVideo(p) ==
  /\ pc[p] = "idle"
  /\ \E v \in VideoIds, ok \in BOOLEAN :
       LET video == videos[v] IN
       /\ req' = [req EXCEPT ![p] = [NoReq EXCEPT !.vid = v, !.video = video,
                      !.job0 = IF video.requestId # NULL THEN jobs[video.requestId] ELSE NoJob]]
       /\ IF ~ok THEN Respond(p, [NoResp EXCEPT !.code = 500])
          ELSE IF ~video.exists THEN Respond(p, [NoResp EXCEPT !.code = 404])
          ELSE IF alreadyFinished(video) THEN Respond(p, VideoJson(video))
          ELSE IF video.requestId = NULL THEN Respond(p, VideoJson(video))
          ELSE /\ pc' = [pc EXCEPT ![p] = "poll"]
               /\ resp' = [resp EXCEPT ![p] = NoResp]
  /\ UNCHANGED <<storeVars, providerVars, postVars, uploadVars, mailVars, cl, pollVars>>

\* replicateService.checkVideoStatus(video.requestId) and the branch it selects;
\* polled remembers the job state the provider answered with, if it did
PollStatus(p) ==
  /\ pc[p] = "poll"
  /\ \E r \in PollResponses(req[p].video.requestId) :
       LET res == checkVideoStatus(r)
           sr == res.value
           video == req[p].video
           r1 == [req[p] EXCEPT !.calls = @ + 1,
                                !.polled = IF r.transport = "ok" /\ r.ok THEN r ELSE ThrowResponse]
       IN
       IF res.throws THEN req' = [req EXCEPT ![p] = r1] /\ CatchCheck(p)
       ELSE IF sr.status = "succeeded" /\ sr.output.kind # "null"
         THEN /\ req' = [req EXCEPT ![p] = [r1 EXCEPT !.videoUrl = FirstUrl(sr.output)]]
              /\ pc' = [pc EXCEPT ![p] = "getUser"]
              /\ UNCHANGED resp
       ELSE IF sr.status = "failed"
         THEN /\ req' = [req EXCEPT ![p] = [r1 EXCEPT !.srError = sr.error]]
              /\ pc' = [pc EXCEPT ![p] = "writeFailed"]
              /\ UNCHANGED resp
       ELSE IF video.rawVideoUrl # NULL /\ sr.status # "succeeded"
         THEN /\ req' = [req EXCEPT ![p] = r1]
              /\ pc' = [pc EXCEPT ![p] = "pollSwap"]
              /\ UNCHANGED resp
       ELSE /\ req' = [req EXCEPT ![p] = r1]
            /\ Respond(p, [VideoJson(video) EXCEPT !.status = "processing", !.progress = 3])
  /\ UNCHANGED <<storeVars, providerVars, postVars, uploadVars, mailVars, cl, pollVars>>

\* storage.getUser(video.userId) after a succeeded poll
GetUser(p) ==
  /\ pc[p] = "getUser"
  /\ \E ok \in BOOLEAN :
       LET user == users[req[p].video.userId] IN
       IF ~ok THEN CatchCheck(p) /\ UNCHANGED req
       ELSE IF user.exists /\ user.faceImageUrl # NULL
         THEN /\ req' = [req EXCEPT ![p].user = user]
              /\ pc' = [pc EXCEPT ![p] = "swapSubmit"]
              /\ UNCHANGED resp
       ELSE /\ req' = [req EXCEPT ![p].user = user, ![p].branch = "noFace"]
            /\ pc' = [pc EXCEPT ![p] = "writeCompleted"]
            /\ UNCHANGED resp
  /\ UNCHANGED <<storeVars, providerVars, postVars, uploadVars, mailVars, cl, pollVars>>

\* replicateService.swapFace(videoUrl, user.faceImageUrl, userId)
SwapSubmit(p) ==
  /\ pc[p] = "swapSubmit"
  /\ \E o \in SubmitOutcomes :
       LET r1 == [req[p] EXCEPT !.calls = @ + 1, !.submits = @ + 1] IN
       IF swapFace(o).throws
         THEN /\ req' = [req EXCEPT ![p] = r1]
              /\ CatchCheck(p)
              /\ UNCHANGED providerVars
         ELSE /\ nextJob <= MaxJobs
              /\ jobs' = [jobs EXCEPT ![nextJob] =
                   [kind |-> "swap", status |-> "processing", outKind |-> "null",
                    hasErr |-> FALSE, src |-> req[p].videoUrl]]
              /\ nextJob' = nextJob + 1
              /\ req' = [req EXCEPT ![p] = [r1 EXCEPT !.swapId = nextJob]]
              /\ pc' = [pc EXCEPT ![p] = "writeSwap"]
              /\ UNCHANGED resp
  /\ UNCHANGED <<storeVars, postVars, uploadVars, mailVars, cl, pollVars>>

\* an update that stores the swap handle but not the generated URL
StartSwapUpdateMut(p) == [requestId |-> req[p].swapId]

\* { rawVideoUrl: videoUrl, requestId: swapResult.id }
StartSwapUpdate(p) == [rawVideoUrl |-> req[p].videoUrl, requestId |-> req[p].swapId]

\* storage.updateVideo(video.id, { rawVideoUrl, requestId }) and the 0.5 response
WriteSwap(p) ==
  /\ pc[p] = "writeSwap"
  /\ \E ok \in BOOLEAN :
       IF ~ok THEN CatchCheck(p) /\ UNCHANGED <<videos, req>>
       ELSE /\ videos' = updateVideo(req[p].vid, StartSwapUpdate(p))
            /\ req' = [req EXCEPT ![p].writes = @ + 1, ![p].branch = "startSwap"]
            /\ Respond(p, [VideoJson(req[p].video) EXCEPT !.status = "processing", !.progress = 5])
  /\ UNCHANGED <<users, uploads, providerVars, postVars, uploadVars, mailVars, cl, pollVars>>

\* storage.updateVideoStatus(video.id, 'failed') and its response
WriteFailed(p) ==
  /\ pc[p] = "writeFailed"
  /\ \E ok \in BOOLEAN :
       IF ~ok THEN CatchCheck(p) /\ UNCHANGED <<videos, req>>
       ELSE /\ videos' = updateVideoStatus(req[p].vid, "failed")
            /\ req' = [req EXCEPT ![p].writes = @ + 1, ![p].branch = "failed"]
            /\ Respond(p, [VideoJson(req[p].video) EXCEPT !.status = "failed",
                                                          !.error = (req[p].srError # NULL)])
  /\ UNCHANGED <<users, uploads, providerVars, postVars, uploadVars, mailVars, cl, pollVars>>

\* replicateService.checkFaceSwapStatus(video.requestId) in the swap-phase branch
PollSwap(p) ==
  /\ pc[p] = "pollSwap"
  /\ \E r \in PollResponses(req[p].video.requestId) :
       LET res == checkFaceSwapStatus(r)
           sr == res.value
           r1 == [req[p] EXCEPT !.calls = @ + 1]
       IN
       IF res.throws THEN req' = [req EXCEPT ![p] = r1] /\ CatchCheck(p)
       ELSE IF sr.status = "succeeded" /\ sr.output.kind # "null"
         THEN /\ req' = [req EXCEPT ![p] = [r1 EXCEPT !.videoUrl = FirstUrl(sr.output),
                                                      !.out = sr.output,
                                                      !.branch = "swapDone"]]
              /\ pc' = [pc EXCEPT ![p] = "writeCompleted"]
              /\ UNCHANGED resp
       ELSE IF sr.status = "failed"
         THEN /\ req' = [req EXCEPT ![p] = [r1 EXCEPT !.srError = sr.error,
                                                      !.branch = "fallback"]]
              /\ pc' = [pc EXCEPT ![p] = "writeCompleted"]
              /\ UNCHANGED resp
       ELSE /\ req' = [req EXCEPT ![p] = r1]
            /\ Respond(p, [VideoJson(req[p].video) EXCEPT !.status = "processing", !.progress = 7])
  /\ UNCHANGED <<storeVars, providerVars, postVars, uploadVars, mailVars, cl, pollVars>>

\* the update that completes the video, per branch:
\*   swapDone: { status: 'completed', videoUrl: swappedVideoUrl, thumbnailUrl: video.rawVideoUrl }
\*   fallback: { status: 'completed', videoUrl: video.rawVideoUrl, errorMessage: swapStatusResult.error }
\*   noFace:   { status: 'completed', videoUrl }
CompletingUpdate(p) ==
  IF req[p].branch = "swapDone"
    THEN [status |-> "completed", videoUrl |-> req[p].videoUrl,
          thumbnailUrl |-> req[p].video.rawVideoUrl]
  ELSE IF req[p].branch = "fallback"
    THEN [status |-> "completed", videoUrl |-> req[p].video.rawVideoUrl,
          errorMessage |-> req[p].srError]
  ELSE [status |-> "completed", videoUrl |-> req[p].videoUrl]

\* const updatedVideo = await storage.updateVideo(video.id, {...})
WriteCompleted(p) ==
  /\ pc[p] = "writeCompleted"
  /\ \E ok \in BOOLEAN :
       IF ~ok THEN CatchCheck(p) /\ UNCHANGED <<videos, req>>
       ELSE /\ videos' = updateVideo(req[p].vid, CompletingUpdate(p))
            /\ req' = [req EXCEPT ![p].writes = @ + 1,
                                  ![p].updatedVideo = videos'[req[p].vid]]
            /\ pc' = [pc EXCEPT ![p] = "getUserNotify"]
            /\ UNCHANGED resp
  /\ UNCHANGED <<users, uploads, providerVars, postVars, uploadVars, mailVars, cl, pollVars>>

\* the response of a check that completed the video
CompletedJson(p) ==
  LET base == [VideoJson(req[p].video) EXCEPT !.status = "completed"] IN
  IF req[p].branch = "swapDone" THEN [base EXCEPT !.videoUrl = req[p].out]
  ELSE IF req[p].branch = "fallback"
    THEN [base EXCEPT !.videoUrl = Col(req[p].video.rawVideoUrl), !.errorMessage = TRUE]
  ELSE [base EXCEPT !.videoUrl = Col(req[p].videoUrl)]

\* storage.getUser(video.userId) before the completion notification
GetUserNotify(p) ==
  /\ pc[p] = "getUserNotify"
  /\ \E ok \in BOOLEAN :
       LET user == users[req[p].video.userId] IN
       IF ~ok THEN CatchCheck(p) /\ UNCHANGED req
       ELSE IF user.exists /\ user.email # NULL /\ req[p].updatedVideo.exists
         THEN /\ req' = [req EXCEPT ![p].user = user]
              /\ pc' = [pc EXCEPT ![p] = "sendEmail"]
              /\ UNCHANGED resp
       ELSE /\ req' = [req EXCEPT ![p].user = user]
            /\ Respond(p, CompletedJson(p))
  /\ UNCHANGED <<storeVars, providerVars, postVars, uploadVars, mailVars, cl, pollVars>>

\* emailService.sendVideoGenerationCompleteNotification(user, updatedVideo):
\* the address it picks, NULL when there is none
emailToNotify(user, video) ==
  IF video.notificationEmail # NULL THEN video.notificationEmail ELSE user.email

\* a sendEmail that does not look at isConfigured
sendEmailMut(to, configured, delivered) ==
  [attempted |-> TRUE, to |-> to, result |-> delivered, raises |-> FALSE]

\* EmailService.sendEmail: false at once when not configured; otherwise one
\* mailService.send, true when it returns and false when it raises
sendEmail(to, configured, delivered) ==
  IF ~configured THEN [attempted |-> FALSE, to |-> NULL, result |-> FALSE, raises |-> FALSE]
  ELSE [attempted |-> TRUE, to |-> to, result |-> delivered, raises |-> FALSE]

\* EmailService.sendVideoGenerationCompleteNotification
sendVideoGenerationCompleteNotification(user, video, configured, delivered) ==
  IF emailToNotify(user, video) = NULL
    THEN [attempted |-> FALSE, to |-> NULL, result |-> FALSE, raises |-> FALSE]
    ELSE sendEmail(emailToNotify(user, video), configured, delivered)

\* the notification call inside its try/catch, then the response; sent
\* remembers what the call returned
SendEmail(p) ==
  /\ pc[p] = "sendEmail"
  /\ \E delivered \in BOOLEAN :
       LET n == sendVideoGenerationCompleteNotification(req[p].user, req[p].updatedVideo,
                                                       emailConfigured, delivered)
       IN
       /\ mails' = IF n.attempted THEN [mails EXCEPT ![req[p].vid] = @ + 1] ELSE mails
       /\ req' = [req EXCEPT ![p].mailTo = n.to,
                             ![p].sent = IF n.result THEN "true" ELSE "false"]
  /\ Respond(p, CompletedJson(p))
  /\ UNCHANGED <<storeVars, providerVars, postVars, uploadVars, emailConfigured, cl, pollVars>>

\* the client receives the response; the poller is free to poll again
Return(p) ==
  /\ pc[p] = "done"
  /\ pc' = [pc EXCEPT ![p] = "idle"]
  /\ req' = [req EXCEPT ![p] = NoReq]
  /\ resp' = [resp EXCEPT ![p] = NoResp]
  /\ UNCHANGED <<storeVars, providerVars, postVars, uploadVars, mailVars, cl, pollVars>>

\* ------------------------------------------------------ POST /api/videos
NoPv == [userId |-> NULL, email |-> NULL, user |-> NoUser, vid |-> NULL,
         requestId |-> NULL, code |-> 0, calls |-> 0, created |-> FALSE,
         sawCompleted |-> FALSE, message |-> "none"]

FreeVideoIds == {v \in VideoIds : ~videos[v].exists}

PvRespond(code) ==
  /\ pvPc' = "done"
  /\ pv' = [pv EXCEPT !.code = code]

\* the client has seen a completed Upload of user u
CompletedUploadOf(u) ==
  \E i \in UploadIds : uploads[i].userId = u /\ uploads[i].processingStatus = "completed"

\* insertVideoSchema.parse(...): a ZodError answers 400; sawCompleted remembers
\* whether the request came after an Upload of the user was completed
PvStart ==
  /\ pvPc = "idle"
  /\ FreeVideoIds # {}
  /\ \E valid \in BOOLEAN, u \in UserIds, e \in {NULL, VideoEmail} :
       IF ~valid THEN PvRespond(400)
       ELSE /\ pv' = [NoPv EXCEPT !.userId = u, !.email = e,
                                   !.sawCompleted = CompletedUploadOf(u)]
            /\ pvPc' = "getUser"
  /\ UNCHANGED <<storeVars, providerVars, getVars, uploadVars, mailVars, cl, pollVars>>

\* a precondition that is never checked
missingFaceImageMut(user) == FALSE

\* if (!user.faceImageUrl)
missingFaceImage(user) == user.faceImageUrl = NULL

\* storage.getUser and the face image precondition
PvGetUser ==
  /\ pvPc = "getUser"
  /\ \E ok \in BOOLEAN :
       LET user == users[pv.userId] IN
       IF ~ok THEN PvRespond(500)
       ELSE IF ~user.exists THEN PvRespond(404)
       ELSE IF missingFaceImage(user)
         THEN pvPc' = "done" /\ pv' = [pv EXCEPT !.code = 400, !.user = user]
       ELSE pvPc' = "createVideo" /\ pv' = [pv EXCEPT !.user = user]
  /\ UNCHANGED <<storeVars, providerVars, getVars, uploadVars, mailVars, cl, pollVars>>

\* storage.createVideo({...})
PvCreateVideo ==
  /\ pvPc = "createVideo"
  /\ \E ok \in BOOLEAN :
       IF ~ok THEN PvRespond(500) /\ UNCHANGED videos
       ELSE LET v == CHOOSE x \in FreeVideoIds : \A y \in FreeVideoIds : x <= y IN
            /\ videos' = [videos EXCEPT ![v] =
                 [NoVideo EXCEPT !.exists = TRUE, !.userId = pv.userId,
                                 !.status = "processing", !.notificationEmail = pv.email]]
            /\ pv' = [pv EXCEPT !.vid = v, !.created = TRUE]
            /\ pvPc' = "setProcessing"
  /\ UNCHANGED <<users, uploads, providerVars, getVars, uploadVars, mailVars, cl, pollVars>>

\* storage.updateVideoStatus(video.id, 'processing')
PvSetProcessing ==
  /\ pvPc = "setProcessing"
  /\ \E ok \in BOOLEAN :
       IF ~ok THEN PvRespond(500) /\ UNCHANGED videos
       ELSE /\ videos' = updateVideoStatus(pv.vid, "processing")
            /\ pvPc' = "testConnection"
            /\ UNCHANGED pv
  /\ UNCHANGED <<users, uploads, providerVars, getVars, uploadVars, mailVars, cl, pollVars>>

\* replicateService.testConnection(), then the generation call (simulated in
\* development mode: generateResult = { id: `dev-${Date.now()}` })
PvStartGeneration ==
  /\ pvPc = "testConnection"
  /\ \E success \in BOOLEAN, o \in SubmitOutcomes :
       IF ~success
         THEN /\ pv' = [pv EXCEPT !.calls = @ + 1]
              /\ pvPc' = "catchFailed"
              /\ UNCHANGED providerVars
       ELSE IF ~useDevelopmentMode /\ o # "ok"
         THEN /\ pv' = [pv EXCEPT !.calls = @ + 2]
              /\ pvPc' = "catchFailed"
              /\ UNCHANGED providerVars
       ELSE /\ nextJob <= MaxJobs
            /\ jobs' = [jobs EXCEPT ![nextJob] =
                 [kind |-> "gen", status |-> "processing", outKind |-> "null",
                  hasErr |-> FALSE, src |-> NULL]]
            /\ nextJob' = nextJob + 1
            /\ pv' = [pv EXCEPT !.calls = @ + (IF useDevelopmentMode THEN 1 ELSE 2),
                                !.requestId = nextJob]
            /\ pvPc' = "storeRequestId"
  /\ UNCHANGED <<storeVars, getVars, uploadVars, mailVars, cl, pollVars>>

\* storage.updateVideo(video.id, { requestId: generateResult.id })
PvStoreRequestId ==
  /\ pvPc = "storeRequestId"
  /\ \E ok \in BOOLEAN :
       IF ~ok THEN pvPc' = "catchFailed" /\ UNCHANGED <<videos, pv>>
       ELSE /\ videos' = updateVideo(pv.vid, [requestId |-> pv.requestId])
            /\ PvRespond(200)
  /\ UNCHANGED <<users, uploads, providerVars, getVars, uploadVars, mailVars, cl, pollVars>>

\* a catch that answers 500 and leaves the Video as it is
PvCatchFailedMut ==
  /\ pvPc = "catchFailed"
  /\ pvPc' = "done"
  /\ pv' = [pv EXCEPT !.code = 500, !.message = "Failed to start video generation"]
  /\ UNCHANGED <<storeVars, providerVars, getVars, uploadVars, mailVars, cl, pollVars>>

\* catch (err): storage.updateVideoStatus(video.id, 'failed'), answer 500
\* "Failed to start video generation"; when the update raises, the outer catch
\* answers 500 "Failed to generate video"
PvCatchFailed ==
  /\ pvPc = "catchFailed"
  /\ \E ok \in BOOLEAN :
       /\ videos' = IF ok THEN updateVideoStatus(pv.vid, "failed") ELSE videos
       /\ pvPc' = "done"
       /\ pv' = [pv EXCEPT !.code = 500,
                           !.message = IF ok THEN "Failed to start video generation"
                                             ELSE "Failed to generate video"]
  /\ UNCHANGED <<users, uploads, providerVars, getVars, uploadVars, mailVars, cl, pollVars>>

PvReturn ==
  /\ pvPc = "done"
  /\ pvPc' = "idle"
  /\ pv' = NoPv
  /\ UNCHANGED <<storeVars, providerVars, getVars, uploadVars, mailVars, cl, pollVars>>

\* ------------------------------------- POST /api/uploads and its background task
NoUp == [userId |-> NULL, uid |-> NULL, code |-> 0, faceImageUrl |-> NULL,
         user |-> NoUser, mailed |-> FALSE, caught |-> FALSE]

FreeUploadIds == {u \in UploadIds : ~uploads[u].exists}

\* insertUserUploadSchema.parse(...): a ZodError answers 400
UpStart ==
  /\ upPc = "idle"
  /\ FreeUploadIds # {}
  /\ \E valid \in BOOLEAN, u \in UserIds :
       IF ~valid THEN upPc' = "done" /\ up' = [NoUp EXCEPT !.code = 400]
       ELSE upPc' = "createUpload" /\ up' = [NoUp EXCEPT !.userId = u]
  /\ UNCHANGED <<storeVars, providerVars, getVars, postVars, mailVars, cl, pollVars>>

\* storage.createUserUpload({...})
UpCreateUpload ==
  /\ upPc = "createUpload"
  /\ \E ok \in BOOLEAN :
       IF ~ok THEN upPc' = "done" /\ up' = [up EXCEPT !.code = 500] /\ UNCHANGED uploads
       ELSE LET id == CHOOSE x \in FreeUploadIds : \A y \in FreeUploadIds : x <= y IN
            /\ uploads' = [uploads EXCEPT ![id] =
                 [NoUpload EXCEPT !.exists = TRUE, !.userId = up.userId,
                                  !.processingStatus = "pending"]]
            /\ up' = [up EXCEPT !.uid = id]
            /\ upPc' = "setProcessing"
  /\ UNCHANGED <<users, videos, providerVars, getVars, postVars, mailVars, cl, pollVars>>

\* storage.updateUserUpload(id, { processingStatus: 'processing' }), the 200
\* response, and the start of the detached task up to its first await: in
\* development mode the face image is the sample URL and extractFace is not called
UpSetProcessing ==
  /\ upPc = "setProcessing"
  /\ \E ok \in BOOLEAN :
       IF ~ok THEN upPc' = "done" /\ up' = [up EXCEPT !.code = 500] /\ UNCHANGED uploads
       ELSE /\ uploads' = updateUserUpload(up.uid, [processingStatus |-> "processing"])
            /\ up' = [up EXCEPT !.code = 200,
                                !.faceImageUrl = IF useDevelopmentMode THEN DevFaceUrl
                                                 ELSE PlaceholderFaceUrl]
            /\ upPc' = "bgWriteCompleted"
  /\ UNCHANGED <<users, videos, providerVars, getVars, postVars, mailVars, cl, pollVars>>

\* an update that marks the row completed without the face image
FaceUpdateMut(faceImageUrl) == [processingStatus |-> "completed"]

\* { faceImageUrl, processingStatus: 'completed' }
FaceUpdate(faceImageUrl) == [faceImageUrl |-> faceImageUrl, processingStatus |-> "completed"]

\* storage.updateUserUpload(id, { faceImageUrl, processingStatus: 'completed' })
BgWriteCompleted ==
  /\ upPc = "bgWriteCompleted"
  /\ \E ok \in BOOLEAN :
       IF ~ok THEN upPc' = "bgCatch" /\ UNCHANGED uploads
       ELSE /\ uploads' = updateUserUpload(up.uid, FaceUpdate(up.faceImageUrl))
            /\ upPc' = "bgGetUser"
  /\ UNCHANGED <<users, videos, up, providerVars, getVars, postVars, mailVars, cl, pollVars>>

\* storage.getUser(userId)
BgGetUser ==
  /\ upPc = "bgGetUser"
  /\ \E ok \in BOOLEAN :
       LET user == users[up.userId] IN
       IF ~ok THEN upPc' = "bgCatch" /\ UNCHANGED up
       ELSE /\ up' = [up EXCEPT !.user = user]
            /\ upPc' = IF user.exists THEN "bgUpdateUser" ELSE "bgDone"
  /\ UNCHANGED <<storeVars, providerVars, getVars, postVars, mailVars, cl, pollVars>>

\* storage.updateUser(user.id, { faceImageUrl, processingStatus: 'completed' })
BgUpdateUser ==
  /\ upPc = "bgUpdateUser"
  /\ \E ok \in BOOLEAN :
       IF ~ok THEN upPc' = "bgCatch" /\ UNCHANGED users
       ELSE /\ users' = updateUser(up.userId, FaceUpdate(up.faceImageUrl))
            /\ upPc' = IF up.user.email # NULL THEN "bgEmail" ELSE "bgDone"
  /\ UNCHANGED <<videos, uploads, up, providerVars, getVars, postVars, mailVars, cl, pollVars>>

\* emailService.sendFaceExtractionCompleteNotification inside its own try/catch
BgEmail ==
  /\ upPc = "bgEmail"
  /\ up' = [up EXCEPT !.mailed = emailConfigured]
  /\ upPc' = "bgDone"
  /\ UNCHANGED <<storeVars, providerVars, getVars, postVars, mailVars, cl, pollVars>>

\* catch (err): storage.updateUserUpload(id, { processingStatus: 'failed', errorMessage });
\* when that raises too, the rejection is only logged
BgCatch ==
  /\ upPc = "bgCatch"
  /\ \E ok \in BOOLEAN :
       uploads' = IF ok THEN updateUserUpload(up.uid,
                               [processingStatus |-> "failed", errorMessage |-> 1])
                        ELSE uploads
  /\ up' = [up EXCEPT !.caught = TRUE]
  /\ upPc' = "bgDone"
  /\ UNCHANGED <<users, videos, providerVars, getVars, postVars, mailVars, cl, pollVars>>

\* ------------------------------------------------ GET /api/uploads/:id
NoGu == [uid |-> NULL, upload |-> NoUpload, user |-> NoUser, code |-> 0,
         processingStatus |-> "none", createRaised |-> FALSE]

GuRespond(g) ==
  /\ guPc' = "done"
  /\ gu' = g

\* catch (error): res.status(200).json({ id, processingStatus: 'failed', ... })
GuCatch(g) == GuRespond([g EXCEPT !.code = 200, !.processingStatus = "failed"])

\* storage.getUserUpload and the early returns
GuStart ==
  /\ guPc = "idle"
  /\ \E i \in UploadIds, ok \in BOOLEAN :
       LET userUpload == uploads[i]
           g == [NoGu EXCEPT !.uid = i]
       IN
       IF ~ok THEN GuCatch(g)
       ELSE IF ~userUpload.exists THEN GuRespond([g EXCEPT !.code = 404])
       ELSE IF userUpload.processingStatus \in Terminal
         THEN GuRespond([g EXCEPT !.upload = userUpload, !.code = 200,
                                  !.processingStatus = userUpload.processingStatus])
       ELSE /\ guPc' = "getUser"
            /\ gu' = [g EXCEPT !.upload = userUpload]
  /\ UNCHANGED <<storeVars, providerVars, getVars, postVars, uploadVars, mailVars, cl,
                 defaultUsers>>

\* storage.getUser(Number(userUpload.userId))
GuGetUser ==
  /\ guPc = "getUser"
  /\ \E ok \in BOOLEAN :
       LET user == users[gu.upload.userId] IN
       IF ~ok THEN GuCatch(gu)
       ELSE IF user.exists
         THEN GuRespond([gu EXCEPT !.user = user, !.code = 200,
                                   !.processingStatus = gu.upload.processingStatus])
       ELSE /\ guPc' = "createUser"
            /\ gu' = [gu EXCEPT !.user = user]
  /\ UNCHANGED <<storeVars, providerVars, getVars, postVars, uploadVars, mailVars, cl,
                 defaultUsers>>

\* Number(userUpload.userId) || 1
defaultUserId(userId) == IF userId = NULL THEN 1 ELSE userId

\* the row createUser inserts for { username, password, email: null }
DefaultUserRow == [exists |-> TRUE, faceImageUrl |-> NULL, email |-> NULL,
                   processingStatus |-> "not_started"]

\* an insert that does not enforce the unique username
createUserMut(n, id, ok) ==
  [raises |-> ~ok \/ (id # NULL /\ users[id].exists)]

\* DatabaseStorage.createUser({ username: user_<n>, ... }): the insert raises
\* when the store fails, when the username is taken (users.username is unique)
\* or when the id the store assigns is taken; id NULL stands for an id that is
\* none of UserIds
createUser(n, id, ok) ==
  [raises |-> ~ok \/ defaultUsers[n] > 0 \/ (id # NULL /\ users[id].exists)]

\* storage.createUser inside its try/catch, then the 200 response
GuCreateUser ==
  /\ guPc = "createUser"
  /\ \E ok \in BOOLEAN, id \in UserIds \cup {NULL} :
       LET n == defaultUserId(gu.upload.userId) IN
       IF createUser(n, id, ok).raises
         THEN /\ UNCHANGED <<users, defaultUsers>>
              /\ GuRespond([gu EXCEPT !.code = 200, !.createRaised = TRUE,
                                      !.processingStatus = gu.upload.processingStatus])
         ELSE /\ users' = IF id # NULL THEN [users EXCEPT ![id] = DefaultUserRow] ELSE users
              /\ defaultUsers' = [defaultUsers EXCEPT ![n] = @ + 1]
              /\ GuRespond([gu EXCEPT !.code = 200,
                                      !.processingStatus = gu.upload.processingStatus])
  /\ UNCHANGED <<videos, uploads, providerVars, getVars, postVars, uploadVars, mailVars, cl>>

\* the client receives the response and may poll again
GuReturn ==
  /\ guPc = "done"
  /\ guPc' = "idle"
  /\ gu' = NoGu
  /\ UNCHANGED <<storeVars, providerVars, getVars, postVars, uploadVars, mailVars, cl,
                 defaultUsers>>

\* ------------------------------------------------------------ the server
NoCl == [pc |-> "off"]

\* the users table at start-up: rows registered earlier, with or without an
\* email, with the face image an earlier upload may have stored
UserRows(faces) ==
  {NoUser} \cup {[exists |-> TRUE, faceImageUrl |-> f, email |-> e,
                  processingStatus |-> IF f = NULL THEN "not_started" ELSE "completed"] :
                 f \in faces, e \in {NULL, UserEmail}}

InitServer(faces) ==
  /\ users \in [UserIds -> UserRows(faces)]
  /\ videos = [v \in VideoIds |-> NoVideo]
  /\ uploads = [u \in UploadIds |-> NoUpload]
  /\ jobs = [h \in Handles |-> NoJob]
  /\ nextJob = 1
  /\ pc = [p \in Pollers |-> "idle"]
  /\ req = [p \in Pollers |-> NoReq]
  /\ resp = [p \in Pollers |-> NoResp]
  /\ pvPc = "idle"
  /\ pv = NoPv
  /\ upPc = "idle"
  /\ up = NoUp
  /\ emailConfigured \in BOOLEAN
  /\ mails = [v \in VideoIds |-> 0]
  /\ defaultUsers = [n \in UserIds |-> 0]
  /\ guPc = "idle"
  /\ gu = NoGu

CheckStatus(p) ==
  \/ GetVideo(p)
  \/ PollStatus(p)
  \/ GetUser(p)
  \/ SwapSubmit(p)
  \/ WriteSwap(p)
  \/ WriteFailed(p)
  \/ PollSwap(p)
  \/ WriteCompleted(p)
  \/ GetUserNotify(p)
  \/ SendEmail(p)
  \/ Return(p)

PostVideo ==
  \/ PvStart
  \/ PvGetUser
  \/ PvCreateVideo
  \/ PvSetProcessing
  \/ PvStartGeneration
  \/ PvStoreRequestId
  \/ PvCatchFailed
  \/ PvReturn

GetUpload ==
  \/ GuStart
  \/ GuGetUser
  \/ GuCreateUser
  \/ GuReturn

PostUpload ==
  \/ UpStart
  \/ UpCreateUpload
  \/ UpSetProcessing
  \/ BgWriteCompleted
  \/ BgGetUser
  \/ BgUpdateUser
  \/ BgEmail
  \/ BgCatch

\* the video pipeline: POST /api/videos, the provider, and one client whose
\* status checks do not overlap
Init == InitServer({NULL, DevFaceUrl}) /\ cl = NoCl

Next ==
  \/ CheckStatus(1)
  \/ PostVideo
  \/ \E h \in Handles : ProviderProgress(h)

Spec == Init /\ [][Next]_vars

\* the video pipeline with overlapping status checks, from the state in which
\* POST /api/videos has answered 200: the owner has a face image and an email
\* address, the email service is configured, the Video is processing and holds
\* the handle of its generation job
InitOverlap ==
  /\ users \in [UserIds -> {r \in UserRows({DevFaceUrl}) : r.exists /\ r.email # NULL}]
  /\ uploads = [u \in UploadIds |-> NoUpload]
  /\ pc = [p \in Pollers |-> "idle"]
  /\ req = [p \in Pollers |-> NoReq]
  /\ resp = [p \in Pollers |-> NoResp]
  /\ pvPc = "idle"
  /\ pv = NoPv
  /\ upPc = "idle"
  /\ up = NoUp
  /\ emailConfigured = TRUE
  /\ mails = [v \in VideoIds |-> 0]
  /\ videos = [v \in VideoIds |->
                 [NoVideo EXCEPT !.exists = TRUE, !.userId = 1, !.status = "processing",
                                 !.requestId = v]]
  /\ jobs = [h \in Handles |->
               IF h \in VideoIds
                 THEN [kind |-> "gen", status |-> "processing", outKind |-> "null",
                       hasErr |-> FALSE, src |-> NULL]
                 ELSE NoJob]
  /\ nextJob = Cardinality(VideoIds) + 1
  /\ cl = NoCl
  /\ defaultUsers = [n \in UserIds |-> 0]
  /\ guPc = "idle"
  /\ gu = NoGu

\* a second request for the same Video, arriving while a check is in flight;
\* its answer is kept, so a behaviour follows one such request
OverlappingCheck(p) ==
  /\ p # 1
  /\ pc[p] # "done"
  /\ pc[p] # "idle" \/ pc[1] # "idle"
  /\ CheckStatus(p)

NextOverlap ==
  \/ CheckStatus(1)
  \/ \E p \in Pollers : OverlappingCheck(p)
  \/ \E h \in Handles : ProviderProgress(h)

SpecOverlap == InitOverlap /\ [][NextOverlap]_vars

\* the upload pipeline: POST /api/uploads with its background task, a client
\* polling GET /api/uploads/:id, POST /api/videos
InitUpload == InitServer({NULL}) /\ cl = NoCl

NextUpload ==
  \/ PostUpload
  \/ GetUpload
  \/ PostVideo

SpecUpload == InitUpload /\ [][NextUpload]_vars

\* ================================================= the provider client
\* ReplicateService operations called one after another by a caller; cl.calls
\* counts the outbound calls (fetch), cl.records the UsageRecords appended.
ClReady == [pc |-> "ready", op |-> "none", ops |-> 0, calls |-> 0, records |-> 0,
            appendFailed |-> FALSE, log |-> <<>>, errors |-> <<>>, i |-> 0, attempt |-> 0,
            failure |-> "none", lastPoll |-> "none", trackRaised |-> FALSE,
            result |-> [kind |-> "none", handle |-> NULL, reasons |-> <<>>, url |-> NULL],
            expected |-> [kind |-> "none", handle |-> NULL, reasons |-> <<>>, url |-> NULL]]

serverVars == <<storeVars, providerVars, getVars, postVars, uploadVars, mailVars, pollVars>>

\* a trackApiUsage that lets the store's error through
trackApiUsageMut(c, appended) ==
  [c EXCEPT !.records = IF appended THEN @ + 1 ELSE @,
            !.appendFailed = @ \/ ~appended,
            !.trackRaised = @ \/ ~appended]

\* CostTrackerService.trackApiUsage: appends one record, or swallows the
\* store's error and appends none
trackApiUsage(c, appended) ==
  [c EXCEPT !.records = IF appended THEN @ + 1 ELSE @,
            !.appendFailed = @ \/ ~appended]

\* n invocations of trackApiUsage
RECURSIVE trackAll(_, _)
trackAll(c, oks) ==
  IF oks = <<>> THEN c ELSE trackAll(trackApiUsage(c, Head(oks)), Tail(oks))

AppendOutcomes(n) == [1..n -> BOOLEAN]

\* every answer a poll can get
AnyPollResponse ==
  {ThrowResponse}
  \cup {[transport |-> "ok", ok |-> FALSE, status |-> "none", output |-> NullOut, error |-> e] :
          e \in {NULL, 1}}
  \cup {[transport |-> "ok", ok |-> TRUE, status |-> "processing", output |-> NullOut, error |-> NULL]}
  \cup {[transport |-> "ok", ok |-> TRUE, status |-> "succeeded", output |-> o, error |-> NULL] :
          o \in {NullOut, StrOut(1), ArrOut(<<1, AltUrl(1)>>)}}
  \cup {[transport |-> "ok", ok |-> TRUE, status |-> "failed", output |-> NullOut, error |-> e] :
          e \in {NULL, 1}}

Begin(name) == [cl EXCEPT !.op = name, !.ops = @ + 1, !.log = <<>>, !.errors = <<>>,
                          !.i = 0, !.attempt = 0, !.failure = "none", !.lastPoll = "none",
                          !.trackRaised = FALSE,
                          !.result = ClReady.result, !.expected = ClReady.result]

\* one fetch of generateVideo: the model tried (0 = primary, i = backup i), how
\* it ended, and the id its response carries
Called(c, model, o) ==
  [c EXCEPT !.calls = @ + 1,
            !.log = Append(@, [model |-> model, outcome |-> o, id |-> c.calls + 1])]

Reason(model, o) == [model |-> model, how |-> IF o = "throw" THEN "exception" ELSE "error"]

\* a catch block that logs the exception without keeping its reason
recordFailureMut(errors, model, o) ==
  IF o = "throw" THEN errors ELSE Append(errors, Reason(model, o))

\* errors.push(`Backup model ${i} error: ...`) / errors.push(`Backup model ${i} exception: ...`)
recordFailure(errors, model, o) == Append(errors, Reason(model, o))

\* a loop that skips every other backup
nextBackupMut(i) == i + 2

\* for (let i = 0; i < BACKUP_VIDEO_MODELS.length; i++)
nextBackup(i) == i + 1

\* the operation ends: with r, which it computed from the provider's answers
\* (kept in expected), unless an awaited trackApiUsage raised
Returned(c, r) ==
  [c EXCEPT !.pc = "ready", !.expected = r,
            !.result = IF c.trackRaised THEN [r EXCEPT !.kind = "ledgerError"] ELSE r]
HandleResult(h) == [ClReady.result EXCEPT !.kind = "handle", !.handle = h]
ErrorResult(reasons) == [ClReady.result EXCEPT !.kind = "error", !.reasons = reasons]
UrlResult(u) == [ClReady.result EXCEPT !.kind = "url", !.url = u]

\* outcome of a generation submit: as SubmitOutcomes, with the non-success
\* answers split into 401/403 ("unauthorized") and the rest ("errorResponse")
GenSubmitOutcomes == SubmitOutcomes \cup {"unauthorized"}

\* generateVideo: the submit to the primary model
GenPrimary ==
  /\ cl.pc = "ready" /\ cl.ops < MaxOps
  /\ \E o \in GenSubmitOutcomes, a \in AppendOutcomes(1) :
       LET c == trackAll(Called(Begin("generateVideo"), 0, o), a) IN
       cl' = IF o = "ok" THEN Returned(c, HandleResult(c.calls))
             ELSE IF o = "throw" THEN Returned(c, ErrorResult(<<Reason(0, o)>>))
             ELSE [c EXCEPT !.pc = "genBackup", !.errors = <<Reason(0, o)>>, !.i = 1]
  /\ UNCHANGED serverVars

\* generateVideo: one turn of the loop over BACKUP_VIDEO_MODELS; after the last
\* backup has failed, throw new Error(errors.join(', ')) lands in the outer
\* catch, which tracks once more and rethrows
GenBackup ==
  /\ cl.pc = "genBackup"
  /\ \E o \in GenSubmitOutcomes, a \in AppendOutcomes(2) :
       LET c0 == Called(cl, cl.i, o)
           c1 == IF o = "throw" THEN c0 ELSE trackApiUsage(c0, a[1])
           errs == recordFailure(cl.errors, cl.i, o)
       IN
       cl' = IF o = "ok" THEN Returned(c1, HandleResult(c1.calls))
             ELSE IF nextBackup(cl.i) <= NumBackups
               THEN [c1 EXCEPT !.errors = errs, !.i = nextBackup(cl.i)]
             ELSE Returned([trackApiUsage(c1, a[2]) EXCEPT !.errors = errs], ErrorResult(errs))
  /\ UNCHANGED serverVars

\* the error FalAIService.generateVideo raises: FalAuthError for 401/403,
\* FalApiError for any other non-success answer and for a network error
FalErrorOf(o) == IF o = "unauthorized" THEN "FalAuthError" ELSE "FalApiError"

\* FalAIService.generateVideo: one submit; a failure is tracked in the outer
\* catch and rethrown, a success is tracked and its response returned
FalGenerateVideo ==
  /\ cl.pc = "ready" /\ cl.ops < MaxOps
  /\ \E o \in GenSubmitOutcomes, a \in AppendOutcomes(1) :
       LET c == trackAll(Called(Begin("falGenerateVideo"), 0, o), a) IN
       cl' = IF o = "ok" THEN Returned(c, HandleResult(c.calls))
             ELSE Returned(c, ErrorResult(<<[model |-> 0, how |-> FalErrorOf(o)]>>))
  /\ UNCHANGED serverVars

\* checkVideoStatus called directly
ClCheckVideoStatus ==
  /\ cl.pc = "ready" /\ cl.ops < MaxOps
  /\ \E r \in AnyPollResponse :
       LET res == checkVideoStatus(r) IN
       \E a \in AppendOutcomes(res.tracks) :
         LET c == trackAll([Begin("checkVideoStatus") EXCEPT !.calls = @ + 1], a) IN
         cl' = Returned(c, IF res.throws THEN ErrorResult(<<>>)
                           ELSE UrlResult(FirstUrl(res.value.output)))
  /\ UNCHANGED serverVars

\* checkFaceSwapStatus called directly
ClCheckFaceSwapStatus ==
  /\ cl.pc = "ready" /\ cl.ops < MaxOps
  /\ \E r \in AnyPollResponse :
       LET res == checkFaceSwapStatus(r) IN
       \E a \in AppendOutcomes(res.tracks) :
         LET c == trackAll([Begin("checkFaceSwapStatus") EXCEPT !.calls = @ + 1], a) IN
         cl' = Returned(c, IF res.throws THEN ErrorResult(<<>>)
                           ELSE UrlResult(FirstUrl(res.value.output)))
  /\ UNCHANGED serverVars

\* swapFace called directly
ClSwapFace ==
  /\ cl.pc = "ready" /\ cl.ops < MaxOps
  /\ \E o \in SubmitOutcomes :
       LET res == swapFace(o) IN
       \E a \in AppendOutcomes(res.tracks) :
         LET c == trackAll([Begin("swapFace") EXCEPT !.calls = @ + 1], a) IN
         cl' = Returned(c, IF res.throws THEN ErrorResult(<<>>) ELSE HandleResult(c.calls))
  /\ UNCHANGED serverVars

\* extractFace gives up: console.error(...), one trackApiUsage with status
\* 'error', return of the placeholder URL; failure remembers what went wrong
ExtractFailed(c, why, a) ==
  Returned([trackAll(c, a) EXCEPT !.failure = why], UrlResult(PlaceholderFaceUrl))

\* extractFace: the submit; any failure tracks once and returns the placeholder
ExtractSubmit ==
  /\ cl.pc = "ready" /\ cl.ops < MaxOps
  /\ \E o \in SubmitOutcomes, a \in AppendOutcomes(1) :
       LET c0 == [Begin("extractFace") EXCEPT !.calls = @ + 1] IN
       cl' = IF o = "ok" THEN [c0 EXCEPT !.pc = "extractPoll"]
             ELSE ExtractFailed(c0, IF o = "throw" THEN "transport" ELSE "rejected", a)
  /\ UNCHANGED serverVars

\* what a status poll of the extraction job tells the loop
PollKind(r) ==
  IF r.transport = "throw" THEN "throw"
  ELSE IF r.status = "succeeded" /\ r.output.kind # "null" THEN "output"
  ELSE IF r.status = "failed" THEN "failed"
  ELSE "pending"

\* a loop that allows one more turn
moreAttemptsMut(attempt) == attempt < maxAttempts + 1

\* while (attempt < maxAttempts)
moreAttempts(attempt) == attempt < maxAttempts

\* extractFace: one turn of while (attempt < maxAttempts), and what follows the
\* loop when this was its last turn; lastPoll remembers what the poll told
ExtractPoll ==
  /\ cl.pc = "extractPoll"
  /\ moreAttempts(cl.attempt)
  /\ \E r \in AnyPollResponse, a \in AppendOutcomes(1) :
       LET c0 == [cl EXCEPT !.calls = @ + 1, !.attempt = @ + 1, !.lastPoll = PollKind(r)]
           c1 == trackAll(c0, a)
       IN
       cl' = IF r.transport = "throw" THEN ExtractFailed(c0, "transport", a)
             ELSE IF r.status = "succeeded" /\ r.output.kind # "null"
               THEN Returned(c1, UrlResult(FirstUrl(r.output)))
             ELSE IF r.status = "failed" THEN ExtractFailed(c0, "jobFailed", a)
             ELSE IF moreAttempts(c0.attempt) THEN c0
             ELSE ExtractFailed(c0, "timedOut", a)
  /\ UNCHANGED serverVars

\* the client is exercised on its own: no users, no requests in flight
InitClient ==
  /\ InitServer({NULL})
  /\ users = [u \in UserIds |-> NoUser]
  /\ emailConfigured = FALSE
  /\ cl = ClReady

NextClient ==
  \/ GenPrimary
  \/ GenBackup
  \/ FalGenerateVideo
  \/ ClCheckVideoStatus
  \/ ClCheckFaceSwapStatus
  \/ ClSwapFace
  \/ ExtractSubmit
  \/ ExtractPoll

SpecClient == InitClient /\ [][NextClient]_vars

\* the client with the event loop resuming extractFace after each poll
SpecClientLive == SpecClient /\ WF_vars(ExtractPoll)

\* ======================================================== properties
\* helpers over a status check p that has answered
Answered(p) == pc[p] = "done" /\ req[p].video.exists
InGenerationPhase(v) == v.status = "processing" /\ v.requestId # NULL /\ v.rawVideoUrl = NULL
InSwapPhase(v) == v.status = "processing" /\ v.requestId # NULL /\ v.rawVideoUrl # NULL
HadOutput(j) == j.status = "succeeded" /\ j.outKind # "null"

\* C1: a status check that finds the persisted Video completed or failed ends at
\* once: it makes no provider call, attempts no notification and leaves the
\* videos table (and the provider's jobs) as they were.
C1_TerminalCheckIdempotent ==
  [][\A p \in Pollers :
       (pc[p] = "idle" /\ pc'[p] # "idle" /\ req'[p].video.exists
          /\ req'[p].video.status \in Terminal)
       => /\ pc'[p] = "done"
          /\ videos' = videos
          /\ jobs' = jobs /\ nextJob' = nextJob
          /\ mails' = mails
          /\ req'[p].calls = 0 /\ req'[p].submits = 0 /\ req'[p].writes = 0]_vars

C1_Witness ==
  /\ Answered(1) /\ req[1].video.status = "failed" /\ req[1].video.requestId # NULL
  /\ resp[1].code = 200 /\ req[1].calls = 0

\* C2 (as claimed): a check of a swap-phase Video, begun when the swap job had
\* already succeeded with an output and answered without an error, leaves the
\* Video completed with videoUrl = the swap output and thumbnailUrl = rawVideoUrl,
\* and has submitted no job.
C2_SwapSuccessCompletes ==
  \A p \in Pollers :
    (Answered(p) /\ InSwapPhase(req[p].video) /\ HadOutput(req[p].job0)
       /\ resp[p].code = 200 /\ ~resp[p].caught)
    => /\ videos[req[p].vid].status = "completed"
       /\ videos[req[p].vid].videoUrl = req[p].video.requestId
       /\ videos[req[p].vid].thumbnailUrl = req[p].video.rawVideoUrl
       /\ req[p].submits = 0

\* C3 (as claimed): a check of a swap-phase Video, begun when the swap job had
\* failed and answered without an error, leaves the Video completed with
\* videoUrl = rawVideoUrl and an errorMessage.
C3_SwapFailureFallsBack ==
  \A p \in Pollers :
    (Answered(p) /\ InSwapPhase(req[p].video) /\ req[p].job0.status = "failed"
       /\ resp[p].code = 200 /\ ~resp[p].caught)
    => /\ videos[req[p].vid].status = "completed"
       /\ videos[req[p].vid].videoUrl = req[p].video.rawVideoUrl
       /\ videos[req[p].vid].errorMessage # NULL

\* C4 (as claimed, its safety part): an Upload that is completed or failed keeps
\* that processingStatus.
C4_UploadTerminalIsFinal ==
  [][\A u \in UploadIds :
       uploads[u].processingStatus \in Terminal
       => uploads'[u].processingStatus = uploads[u].processingStatus]_vars

\* C8: POST /api/videos that reads a user without a face image answers 400, has
\* created no Video and has made no provider call.
C8_NoFaceImageRejected ==
  (pvPc = "done" /\ pv.user.exists /\ pv.user.faceImageUrl = NULL)
  => /\ pv.code = 400
     /\ ~pv.created /\ pv.vid = NULL
     /\ \A v \in VideoIds : ~videos[v].exists
     /\ pv.calls = 0
     /\ nextJob = 1

C8_Witness ==
  pvPc = "done" /\ pv.user.exists /\ pv.user.faceImageUrl = NULL /\ pv.code = 400

\* C9: a check of a generation-phase Video whose poll finds the job succeeded
\* with an output and whose owner has a face image, when nothing raises, makes
\* one submit (the face swap, from the generated URL), writes once, leaves
\* rawVideoUrl = the generated URL, requestId = the swap handle and status
\* processing, and answers processing with progress 0.5.
C9_GenerationSuccessStartsSwap ==
  \A p \in Pollers :
    (Answered(p) /\ InGenerationPhase(req[p].video) /\ req[p].videoUrl # NULL
       /\ req[p].user.exists /\ req[p].user.faceImageUrl # NULL /\ ~resp[p].caught)
    => /\ req[p].submits = 1 /\ req[p].calls = 2 /\ req[p].writes = 1
       /\ req[p].videoUrl = req[p].video.requestId
       /\ jobs[req[p].swapId].kind = "swap"
       /\ jobs[req[p].swapId].src = req[p].videoUrl
       /\ videos[req[p].vid].rawVideoUrl = req[p].videoUrl
       /\ videos[req[p].vid].requestId = req[p].swapId
       /\ videos[req[p].vid].status = "processing"
       /\ resp[p].code = 200 /\ resp[p].status = "processing" /\ resp[p].progress = 5

C9_Witness ==
  /\ Answered(1) /\ InGenerationPhase(req[1].video) /\ req[1].videoUrl # NULL
  /\ req[1].user.faceImageUrl # NULL /\ ~resp[1].caught
  /\ resp[1].progress = 5 /\ videos[1].rawVideoUrl = req[1].videoUrl

\* C10 (as claimed): when a step of a check of a processing Video raises, the
\* answer is a 200 carrying the error text and the persisted Video is what the
\* check read.
C10_RaisingCheckChangesNothing ==
  \A p \in Pollers :
    (Answered(p) /\ req[p].video.status = "processing" /\ resp[p].caught)
    => /\ resp[p].code = 200 /\ resp[p].error
       /\ videos[req[p].vid] = req[p].video

\* what the provider answered to the first poll of check p
ProviderReported(p, status) ==
  req[p].polled.transport = "ok" /\ req[p].polled.ok /\ req[p].polled.status = status

\* C11 (as claimed): a check of a generation-phase Video whose poll is answered
\* with the job's state failed, with or without an error text, and in which no
\* store access raises, leaves the persisted status failed.
C11_GenerationFailurePersistsFailed ==
  \A p \in Pollers :
    (Answered(p) /\ InGenerationPhase(req[p].video) /\ ProviderReported(p, "failed")
       /\ (resp[p].caught => checkVideoStatus(req[p].polled).throws))
    => videos[req[p].vid].status = "failed"

\* a run of generateVideo, finished or not: its submit calls so far are cl.log
InGenerateVideo == cl.op = "generateVideo"
GenerateVideoReturned == InGenerateVideo /\ cl.pc = "ready"

\* C5: in generateVideo, when the primary's submit has failed and a backup's
\* submit has succeeded, that submit is the last call, the calls are the primary
\* then backups 1..k in list order, every call before it failed, and the handle
\* returned is the one that submit answered.
C5_FirstSuccessfulBackupWins ==
  \A j \in 1..Len(cl.log) :
    (InGenerateVideo /\ cl.log[j].model >= 1 /\ cl.log[j].outcome = "ok")
    => /\ cl.log[1].outcome # "ok"
       /\ j = Len(cl.log)
       /\ \A i \in 1..j : cl.log[i].model = i - 1
       /\ \A i \in 1..(j - 1) : cl.log[i].outcome # "ok"
       /\ cl.pc = "ready"
       /\ cl.result.kind = "handle"
       /\ cl.result.handle = cl.log[j].id

C5_Witness ==
  /\ GenerateVideoReturned /\ Len(cl.log) = 4
  /\ cl.log[2].outcome = "throw" /\ cl.log[3].outcome = "errorResponse"
  /\ cl.log[4].outcome = "ok" /\ cl.result.handle = cl.log[4].id

\* C6: when generateVideo raises, its error carries one reason per attempt made,
\* in attempt order, each telling whether the attempt ended in an error response
\* or in an exception; after the primary and all NumBackups backups have been
\* tried and failed that is NumBackups + 1 reasons.
C6_AggregateErrorListsEveryAttempt ==
  (GenerateVideoReturned /\ cl.result.kind = "error")
  => /\ Len(cl.result.reasons) = Len(cl.log)
     /\ \A j \in 1..Len(cl.log) :
          /\ cl.log[j].model = j - 1
          /\ cl.log[j].outcome # "ok"
          /\ cl.result.reasons[j] = Reason(j - 1, cl.log[j].outcome)
     /\ cl.log[1].outcome # "throw" => Len(cl.result.reasons) = NumBackups + 1

C6_Witness ==
  /\ GenerateVideoReturned /\ cl.result.kind = "error"
  /\ Len(cl.log) = NumBackups + 1 /\ Len(cl.result.reasons) = NumBackups + 1
  /\ \E j \in 2..Len(cl.log) : cl.log[j].outcome = "throw"
  /\ \E j \in 2..Len(cl.log) : cl.log[j].outcome = "errorResponse"

\* C7 (as claimed): between client operations, when every append to the ledger
\* succeeded, there are as many UsageRecords as outbound calls.
C7_OneRecordPerCall ==
  (cl.pc = "ready" /\ ~cl.appendFailed) => cl.records = cl.calls

TaskFinished == upPc = "bgDone"

\* C13: when the background task of an Upload has finished and no store access
\* raised on its way (the extraction itself cannot fail: the task takes the sample
\* face image), the Upload is completed with a face image, and the owning User,
\* when its row exists, has that face image and processingStatus completed.
C13_ExtractionSuccessCompletes ==
  (TaskFinished /\ ~up.caught)
  => /\ uploads[up.uid].processingStatus = "completed"
     /\ uploads[up.uid].faceImageUrl # NULL
     /\ uploads[up.uid].faceImageUrl = up.faceImageUrl
     /\ users[up.userId].exists
          => /\ users[up.userId].faceImageUrl # NULL
             /\ users[up.userId].faceImageUrl = uploads[up.uid].faceImageUrl
             /\ users[up.userId].processingStatus = "completed"

C13_Witness ==
  /\ TaskFinished /\ ~up.caught
  /\ uploads[up.uid].processingStatus = "completed"
  /\ up.user.exists /\ up.user.faceImageUrl = NULL
  /\ users[up.userId].faceImageUrl = DevFaceUrl

\* C14 (as claimed): when generateVideo raises, the primary and then every
\* backup, in list order, have been submitted: no failure of the primary's
\* submit, transport failures included, is surfaced before the backups are tried.
C14_PrimaryFailureTriesBackups ==
  (GenerateVideoReturned /\ cl.result.kind = "error")
  => /\ Len(cl.log) = NumBackups + 1
     /\ \A j \in 1..Len(cl.log) : cl.log[j].model = j - 1

\* a run of either service's generateVideo
InGeneration == cl.op \in {"generateVideo", "falGenerateVideo"}

\* C15 (as claimed): a generation submit answered with 401 or 403 is the last
\* submit of its request, and the request ends in an error.
C15_AuthFailureNotRetried ==
  \A j \in 1..Len(cl.log) :
    (InGeneration /\ cl.log[j].outcome = "unauthorized")
    => /\ j = Len(cl.log)
       /\ cl.pc = "ready" => cl.result.kind = "error"

\* C16 (as claimed, for GET /api/videos/:id): every answered status check
\* carries a status below 500, also when the store or the provider failed
\* during the request.
C16_StatusCheckNever5xx ==
  \A p \in Pollers : pc[p] = "done" => resp[p].code < 500

\* check p has answered after starting a face swap
StartedSwap(p) == pc[p] = "done" /\ req[p].branch = "startSwap"

\* C17: when two overlapping checks have read the same generation-phase record
\* and both have submitted a face swap, the write of the second replaces the
\* handle the first stored: there are two different swap jobs for the one
\* Video, requestId is the handle written last, and the handle written first
\* is in no Video row any more.
C17_OverlappingChecksBothStartSwap ==
  [][\A p \in Pollers, q \in Pollers :
       (/\ p # q
        /\ StartedSwap(q)
        /\ pc[p] = "writeSwap" /\ StartedSwap(p)'
        /\ InGenerationPhase(req[p].video) /\ req[q].video = req[p].video)
       => /\ req[q].swapId # req[p].swapId
          /\ jobs[req[q].swapId].kind = "swap" /\ jobs[req[p].swapId].kind = "swap"
          /\ jobs[req[q].swapId].src = jobs[req[p].swapId].src
          /\ videos[req[p].vid].requestId = req[q].swapId
          /\ videos'[req[p].vid].requestId = req[p].swapId
          /\ \A v \in VideoIds : videos'[v].requestId # req[q].swapId]_vars

C17_Witness ==
  /\ StartedSwap(1) /\ StartedSwap(2)
  /\ req[1].video = req[2].video /\ InGenerationPhase(req[1].video)
  /\ req[1].submits = 1 /\ req[2].submits = 1
  /\ req[1].swapId # req[2].swapId
  /\ videos[1].requestId = req[1].swapId
  /\ \A v \in VideoIds : videos[v].requestId # req[2].swapId

\* C18 (as claimed): under overlapping status checks, a Video whose persisted
\* status is completed or failed keeps that status.
C18_TerminalStatusIsFinal ==
  [][\A v \in VideoIds :
       videos[v].status \in Terminal => videos'[v].status = videos[v].status]_vars

\* C19 (as claimed): a non-null rawVideoUrl is the output URL of a generation
\* job (the output URL of job h is h), and requestId is then the handle of a
\* face-swap job started from that URL.
C19_RawVideoUrlIsGenerationOutput ==
  \A v \in VideoIds :
    videos[v].rawVideoUrl # NULL
    => /\ jobs[videos[v].rawVideoUrl].kind = "gen"
       /\ jobs[videos[v].requestId].kind = "swap"
       /\ jobs[videos[v].requestId].src = videos[v].rawVideoUrl

\* the row a completing check leaves: what it read, merged with its update
CompletedRow(p) ==
  [f \in DOMAIN req[p].video |->
     IF f \in DOMAIN CompletingUpdate(p) THEN CompletingUpdate(p)[f] ELSE req[p].video[f]]

\* C20: the completion notification returns false without a delivery attempt
\* when the email service is not configured or when neither the Video nor the
\* User has an address, returns false when the delivery fails, and never
\* raises; a completing check that called it has answered completed without
\* being diverted to its error handler, and the persisted Video is the row the
\* completing update wrote, whatever the notification returned.
C20_NotificationNeverAbortsCompletion ==
  /\ \A user \in UserRows({NULL, DevFaceUrl}), e \in {NULL, VideoEmail},
        configured \in BOOLEAN, delivered \in BOOLEAN :
       LET video == [NoVideo EXCEPT !.exists = TRUE, !.notificationEmail = e]
           n == sendVideoGenerationCompleteNotification(user, video, configured, delivered)
       IN
       /\ ~n.raises
       /\ (~configured \/ (e = NULL /\ user.email = NULL)) => (~n.attempted /\ ~n.result)
       /\ (n.attempted /\ ~delivered) => ~n.result
       /\ n.result => (n.attempted /\ delivered /\ n.to # NULL)
  /\ \A p \in Pollers :
       (Answered(p) /\ req[p].sent # "notCalled")
       => /\ ~resp[p].caught
          /\ resp[p].code = 200 /\ resp[p].status = "completed"
          /\ videos[req[p].vid].status = "completed"
          /\ videos[req[p].vid] = CompletedRow(p)
          /\ ~emailConfigured => (req[p].sent = "false" /\ req[p].mailTo = NULL
                                    /\ mails[req[p].vid] = 0)
          /\ req[p].sent = "true" => (emailConfigured /\ req[p].mailTo # NULL)

C20_Witness ==
  /\ Answered(1) /\ req[1].sent = "false" /\ req[1].mailTo # NULL
  /\ emailConfigured /\ mails[req[1].vid] = 1
  /\ videos[req[1].vid].status = "completed" /\ ~resp[1].caught

\* check p has answered, without raising, after writing status completed
MovedToCompleted(p) ==
  /\ Answered(p) /\ ~resp[p].caught
  /\ req[p].branch \in {"swapDone", "fallback", "noFace"}
  /\ req[p].writes = 1

\* C21 (as claimed): a check that has moved a Video to completed, with the
\* email service configured and an address on the Video or on its owner, has
\* attempted a notification, addressed to Video.notificationEmail when that is
\* set and to the owner's email otherwise.
C21_NotificationAddressedToOverride ==
  \A p \in Pollers :
    (/\ MovedToCompleted(p)
     /\ emailConfigured
     /\ req[p].updatedVideo.notificationEmail # NULL \/ req[p].user.email # NULL)
    => /\ req[p].mailTo # NULL
       /\ req[p].mailTo = IF req[p].updatedVideo.notificationEmail # NULL
                            THEN req[p].updatedVideo.notificationEmail
                            ELSE req[p].user.email

\* C22: trackApiUsage never raises, and a Provider Client operation ends with
\* the result or error it computed from the provider's answers, whether or not
\* the appends to the usage ledger succeeded.
C22_LedgerFailureSwallowed ==
  (cl.pc = "ready" /\ cl.op # "none")
  => /\ ~cl.trackRaised
     /\ cl.result = cl.expected

C22_Witness ==
  /\ cl.pc = "ready" /\ cl.ops = 1 /\ cl.op = "swapFace"
  /\ cl.appendFailed /\ cl.records = 0
  /\ cl.result.kind = "handle" /\ cl.result = cl.expected

\* a run of extractFace, and one that has returned
InExtractFace == cl.op = "extractFace"
ExtractFaceReturned == InExtractFace /\ cl.pc = "ready"

\* C23: extractFace makes at most maxAttempts status polls, goes on polling
\* only after a poll that reported neither an output nor a failure, returns
\* the polled URL after a poll with an output and the placeholder URL in every
\* other case (never an error), and a run that is polling eventually returns.
C23_ExtractFaceTerminates ==
  /\ [](InExtractFace =>
          /\ cl.attempt <= maxAttempts
          /\ cl.calls >= cl.attempt
          /\ cl.pc = "extractPoll" =>
               (cl.attempt < maxAttempts /\ cl.lastPoll \in {"none", "pending"}))
  /\ [](ExtractFaceReturned =>
          /\ cl.result.kind = "url" /\ cl.result.url # NULL
          /\ cl.lastPoll = "output" <=> cl.failure = "none"
          /\ cl.failure # "none" => cl.result.url = PlaceholderFaceUrl
          /\ cl.lastPoll = "pending" => (cl.attempt = maxAttempts /\ cl.failure = "timedOut"))
  /\ (cl.pc = "extractPoll") ~> (cl.pc = "ready")

C23_Witness ==
  /\ ExtractFaceReturned /\ cl.attempt = maxAttempts /\ cl.lastPoll = "pending"
  /\ cl.failure = "timedOut" /\ cl.result.url = PlaceholderFaceUrl

\* POST /api/uploads has answered 200 with the uploadId
UploadAnswered == up.code = 200

\* a step that writes an outcome of the extraction into an Upload
OutcomeWritten ==
  \E u \in UploadIds :
    \/ uploads'[u].processingStatus \in Terminal
         /\ uploads'[u].processingStatus # uploads[u].processingStatus
    \/ uploads'[u].faceImageUrl # uploads[u].faceImageUrl
    \/ uploads'[u].errorMessage # uploads[u].errorMessage

\* C24: the step in which POST /api/uploads answers 200 finds the Upload
\* persisted and leaves it processing, with no outcome written; the background
\* task writes an outcome (face image, completed, failed, the User's face image)
\* only after that answer; and the answer, once given, stays what it was.
C24_UploadAnswersBeforeOutcome ==
  [][/\ (~UploadAnswered /\ UploadAnswered')
         => /\ up'.uid # NULL /\ up'.uid = up.uid
            /\ uploads[up.uid].exists
            /\ uploads'[up.uid].processingStatus = "processing"
            /\ uploads'[up.uid].faceImageUrl = NULL
            /\ users' = users
     /\ OutcomeWritten => UploadAnswered
     /\ (upPc' # upPc /\ users' # users) => UploadAnswered
     /\ UploadAnswered => (up'.code = up.code /\ up'.uid = up.uid)]_vars

C24_Witness ==
  /\ TaskFinished /\ UploadAnswered
  /\ uploads[up.uid].processingStatus = "failed"
  /\ uploads[up.uid].errorMessage # NULL

\* the sequence of URLs the poll of check p returned, <<>> when it returned none
SequenceReturned(p) ==
  IF req[p].branch = "swapDone" /\ req[p].out.kind = "arr" THEN req[p].out.urls
  ELSE IF req[p].branch \in {"noFace", "startSwap"} /\ req[p].polled.output.kind = "arr"
    THEN req[p].polled.output.urls
  ELSE <<>>

\* C25: when the poll of an answered check returned a sequence of URLs, the URL
\* the check persisted (rawVideoUrl when it started the swap, videoUrl when it
\* completed the video) is the first element of the sequence, and so is the
\* videoUrl of the response of a check that completed the video.
C25_SequenceCollapsesToFirst ==
  \A p \in Pollers :
    (pc[p] = "done" /\ req[p].writes > 0 /\ SequenceReturned(p) # <<>>)
    => /\ req[p].branch = "startSwap"
            => videos[req[p].vid].rawVideoUrl = SequenceReturned(p)[1]
       /\ req[p].branch \in {"noFace", "swapDone"}
            => /\ req[p].updatedVideo.videoUrl = SequenceReturned(p)[1]
               /\ resp[p].videoUrl = StrOut(SequenceReturned(p)[1])

\* ------------------------------------- a client that keeps polling one Video
\* a step of a status check in which no store call and no transport call
\* failed: the check was not answered 500, its catch ran only because the
\* provider reported an error text, and a swap poll answered "in progress"
\* only for a job that was in progress
NoFailure(p) ==
  /\ resp'[p].code # 500
  /\ resp'[p].caught => req'[p].polled.error # NULL
  /\ (pc[p] = "pollSwap" /\ resp'[p].progress = 7)
       => jobs[req[p].video.requestId].status = "processing"

PollingCheck == CheckStatus(1) /\ NoFailure(1)

\* a job finishes as succeeded with output, or as failed
JobFinishes(h) ==
  /\ ProviderProgress(h)
  /\ jobs'[h].status = "succeeded" => jobs'[h].outKind # "null"

NextPolling ==
  \/ PollingCheck
  \/ \E h \in Handles : JobFinishes(h)

\* the polling client never stops and every submitted job finishes
SpecPolling ==
  /\ InitOverlap
  /\ [][NextPolling]_vars
  /\ WF_vars(PollingCheck)
  /\ \A h \in Handles : WF_vars(JobFinishes(h))

\* every handle the provider can give out has been given out
HandlesExhausted == nextJob > MaxJobs

\* C26: with a client that keeps polling, an owner with a face image, jobs that
\* all finish and no failing store or transport call, the Video eventually is
\* persisted completed or failed (or the provider has run out of handles).
C26_PolledVideoEventuallyTerminal ==
  <>(videos[1].status \in Terminal \/ HandlesExhausted)

\* POST /api/videos answered 400 "User does not have a profile image"
RejectedForMissingFace == pvPc = "done" /\ pv.code = 400 /\ pv.user.exists

\* C27: whenever an Upload is persisted completed and its owner exists, the
\* owner has a face image; and a POST /api/videos sent after an Upload of its
\* user was completed is not rejected for a missing face image.
C27_CompletedUploadImpliesFace ==
  /\ \A i \in UploadIds :
       (uploads[i].processingStatus = "completed" /\ users[uploads[i].userId].exists)
       => users[uploads[i].userId].faceImageUrl # NULL
  /\ pv.sawCompleted => ~RejectedForMissingFace

\* C28: whatever the interleaving of the status checks of a Video, at most one
\* completion notification is attempted for it.
C28_AtMostOneNotification ==
  \A v \in VideoIds : mails[v] <= 1

\* POST /api/videos answered that generation could not be started, and no
\* generation job was obtained
StartFailedAnswered ==
  pvPc = "done" /\ pv.message = "Failed to start video generation" /\ pv.requestId = NULL

\* a Video whose generation could not be started
StartFailed(v) == v.exists /\ v.status = "failed" /\ v.requestId = NULL

\* C29: when POST /api/videos answers that generation could not be started, the
\* answer is an error and the Video is persisted failed without a requestId; a
\* status check that reads such a Video makes no external call, writes nothing
\* and, when it answers 200, answers failed; and no step changes such a Video.
C29_StartFailureLeavesFailed ==
  [][/\ StartFailedAnswered'
         => /\ pv'.code = 500 /\ pv'.created
            /\ StartFailed(videos'[pv'.vid])
     /\ \A p \in Pollers :
          (pc'[p] = "done" /\ StartFailed(req'[p].video))
          => /\ req'[p].calls = 0 /\ req'[p].writes = 0
             /\ resp'[p].code = 200 => resp'[p].status = "failed"
             /\ StartFailed(videos'[req'[p].vid])
     /\ \A v \in VideoIds : StartFailed(videos[v]) => videos'[v] = videos[v]]_vars

C29_Witness ==
  /\ pc[1] = "done" /\ StartFailed(req[1].video)
  /\ resp[1].code = 200
  /\ pvPc = "idle"

\* a step of the GET /api/uploads/:id request
GetUploadStep == guPc' # guPc \/ gu' # gu

====
